---- MODULE Spec2Model ----
(***************************************************************************)
(* Machine actuator of cluster-api-provider-vsphere                        *)
(* (pkg/cloud/vsphere/actuators/machine/actuator.go).                      *)
(*                                                                         *)
(* One reconciliation worker per machine runs Create, Delete, Update or    *)
(* Exists.  Create is split at its blocking collaborator calls, so that    *)
(* the Create invocations of different machines interleave; Delete, Update *)
(* and Exists make a single backend call and are one action each.  The     *)
(* record store (the set of registered machines) changes under the         *)
(* actuator's feet.  Every collaborator call an invocation makes is        *)
(* appended to the invocation's log; the step in which an invocation       *)
(* returns leaves its log and outcome in `last`, where the caller takes it *)
(* before anything else happens.                                           *)
(***************************************************************************)
EXTENDS Integers, Sequences, FiniteSets, TLC

\* ------------------------------------------------------------------ bounds
MaxMachines == 2
MaxCalls == 2

Machines == 1..MaxMachines

\* --------------------------------------------------------------- constants
ControlPlaneRole == "controlplane"
NodeRole == "node"
Roles == {ControlPlaneRole, NodeRole, ""}

\* What the record store holds of a machine: nothing, a control-plane machine,
\* or another machine (a worker, or a machine whose role is unset).
Absent == "absent"
Other == "other"
Listed == {ControlPlaneRole, Other}

\* The roles ctx.Role() can return for a machine the store lists as `listed`.
RolesOf(listed) == IF listed = ControlPlaneRole THEN {ControlPlaneRole} ELSE {NodeRole, ""}

\* 10 * time.Minute, in seconds
defaultTokenTTL == 600
\* constants.RequeueAfterSeconds, in seconds
RequeueAfterSeconds == 20
\* time.Minute * 1, in seconds
Minute == 60

\* The CA key pair of the cluster configuration, by which halves are present.
KeyPairs == [cert : BOOLEAN, key : BOOLEAN]

\* The cluster and machine handed to Create: ones NewMachineContext cannot
\* resolve, or ones it can, with the CA key pair of the cluster configuration.
CreateInputs ==
    {[resolvable |-> FALSE, CAKeyPair |-> [cert |-> FALSE, key |-> FALSE]]}
        \cup {[resolvable |-> TRUE, CAKeyPair |-> kp] : kp \in KeyPairs}

\* What the online-status probe can answer: (true, _, nil), (false, _, nil)
\* and (false, _, err).
ProbeOutcomes == {"online", "offline", "error"}

VARIABLES
    store,         \* store[m]: what the record store holds of machine m
    pc,            \* pc[m]: where the Create invocation of m stands
    steps,         \* steps[m]: the calls the running invocation of m has made
    last,          \* the invocation that has just returned, until the caller takes it
    calls,         \* invocations started so far
    nextToken,     \* credentials issued so far
    bootstrapped,  \* machines the backend was invoked for in bootstrap mode
    bootstrapOK,   \* a bootstrap-mode backend create has succeeded
    handed,        \* the credentials handed to join-mode backend creates, in order
    created        \* machines whose backend create has succeeded

vars == <<store, pc, steps, last, calls, nextToken, bootstrapped, bootstrapOK, handed, created>>

\* ------------------------------------------------------------- log entries
\* One collaborator call: its argument, what it returned, whether it returned
\* without error.
Entry(c, a, o, k) == [call |-> c, arg |-> a, out |-> o, ok |-> k, text |-> ""]

\* ctx.Role() and the role it returned.
RoleEntry(r) == [call |-> "Role", arg |-> 0, out |-> 0, ok |-> TRUE, text |-> r]

\* record.Eventf / record.Warnf and the reason it carries.
Event(c, r) == [call |-> c, arg |-> 0, out |-> 0, ok |-> TRUE, text |-> r]

\* ---------------------------------------------------------------- outcomes
\* `flag` is the boolean Exists returns beside its error; the other operations
\* return an error only.
NoResult == [kind |-> "none", err |-> "", wrapped |-> FALSE, after |-> 0, flag |-> FALSE]

Success == [kind |-> "ok", err |-> "", wrapped |-> FALSE, after |-> 0, flag |-> FALSE]

\* errors.Errorf, or a collaborator's error returned as it is
RawError(e) == [kind |-> "fatal", err |-> e, wrapped |-> FALSE, after |-> 0, flag |-> FALSE]

\* errors.Wrapf(err, ...)
WrappedError(e) == [kind |-> "fatal", err |-> e, wrapped |-> TRUE, after |-> 0, flag |-> FALSE]

\* &clustererr.RequeueAfterError{RequeueAfter: d}
RequeueAfterError(d) ==
    [kind |-> "requeue", err |-> "", wrapped |-> FALSE, after |-> d, flag |-> FALSE]

\* (ok, result) of Exists: the flag beside the error, or beside nil
Flagged(b, res) == [res EXCEPT !.flag = b]

NoCall == [op |-> "none", steps |-> <<>>, result |-> NoResult]

\* ------------------------------------------------------------ pure helpers
HasCertAndKey(kp) == kp.cert /\ kp.key

\* A role check that lets every role through.
RoleUnsetIgnored(r) == FALSE

\* if machineRole == ""
RoleUnset(r) == r = ""

\* A key pair check that looks at the certificate alone.
MissingCertOnly(kp) == ~kp.cert

\* if !ctx.ClusterConfig.CAKeyPair.HasCertAndKey()
MissingPKI(kp) == ~HasCertAndKey(kp)

\* ctx.GetControlPlaneMachines(): the listed machines of control-plane role
GetControlPlaneMachines == {x \in Machines : store[x] = ControlPlaneRole}

\* A bootstrap condition that counts the other control-plane machines only.
IsInitialControlPlaneNoPeers(r, n) == r = ControlPlaneRole /\ n = 0

\* if machineRole == context.ControlPlaneRole && len(controlPlaneMachines) == 1
IsInitialControlPlane(r, n) == r = ControlPlaneRole /\ n = 1

\* An online gate that is never shut, and one that is shut by an error only.
NotOnlineIgnored(outcome) == FALSE

NotOnlineOnErrorOnly(outcome) == outcome = "error"

\* if !online
NotOnline(outcome) == outcome # "online"

\* An error check that sees no error.
FailedIgnored(ok) == FALSE

\* if err != nil, after a collaborator call
Failed(ok) == ~ok

\* The credential of govmomi.Create(ctx, "")
BootstrapCredential == 0

\* A join that hands the backend the empty credential.
JoinCredentialEmpty(tok) == 0

\* A join that hands the backend the first credential ever issued.
JoinCredentialCached(tok) == 1

\* The credential of govmomi.Create(ctx, token)
JoinCredential(tok) == tok

\* tokens.NewBootstrap: the credential issued after `issued` others, a new one
\* each time.
NewBootstrap(issued) == issued + 1

\* Deferred calls in the order they were deferred: the event before the patch.
DeferredEventFirst(log, res, success, failure, patchDeferred) ==
    LET reported == IF res.kind = "ok"
                    THEN Append(log, Event("Eventf", success))
                    ELSE Append(log, Event("Warnf", failure))
    IN  IF patchDeferred THEN Append(reported, Entry("Patch", 0, 0, TRUE)) ELSE reported

\* A deferred reporter that reports success whatever the invocation returns.
DeferredAlwaysSuccess(log, res, success, failure, patchDeferred) ==
    LET patched == IF patchDeferred THEN Append(log, Entry("Patch", 0, 0, TRUE)) ELSE log
    IN  Append(patched, Event("Eventf", success))

\* The deferred calls, in the order they run: ctx.Patch() (deferred last, when
\* it was deferred at all), then the outcome event.
Deferred(log, res, success, failure, patchDeferred) ==
    LET patched == IF patchDeferred THEN Append(log, Entry("Patch", 0, 0, TRUE)) ELSE log
    IN  IF res.kind = "ok"
        THEN Append(patched, Event("Eventf", success))
        ELSE Append(patched, Event("Warnf", failure))

\* ------------------------------------------------------------------- state
Init ==
    /\ store = [m \in Machines |-> Absent]
    /\ pc = [m \in Machines |-> "idle"]
    /\ steps = [m \in Machines |-> <<>>]
    /\ last = NoCall
    /\ calls = 0
    /\ nextToken = 0
    /\ bootstrapped = {}
    /\ bootstrapOK = FALSE
    /\ handed = <<>>
    /\ created = {}

\* ------------------------------------------------------------ record store
Register(m) ==
    /\ last = NoCall
    /\ store[m] = Absent
    /\ \E l \in Listed : store' = [store EXCEPT ![m] = l]
    /\ UNCHANGED <<pc, steps, last, calls, nextToken, bootstrapped, bootstrapOK, handed, created>>

Unregister(m) ==
    /\ last = NoCall
    /\ store[m] # Absent
    /\ store' = [store EXCEPT ![m] = Absent]
    /\ UNCHANGED <<pc, steps, last, calls, nextToken, bootstrapped, bootstrapOK, handed, created>>

\* ------------------------------------------------------------------ Create
\* The invocation of m returns res: the deferred calls run and the invocation
\* is over.
CreateReturn(m, log, res, patchDeferred) ==
    /\ last' = [op |-> "Create", result |-> res,
                steps |-> Deferred(log, res, "CreateSuccess", "CreateFailure", patchDeferred)]
    /\ pc' = [pc EXCEPT ![m] = "idle"]
    /\ steps' = [steps EXCEPT ![m] = <<>>]

\* The invocation of m goes on to its next collaborator call.
CreateContinue(m, log, next) ==
    /\ pc' = [pc EXCEPT ![m] = next]
    /\ steps' = [steps EXCEPT ![m] = log]
    /\ UNCHANGED last

\* NewMachineContext, the role check and the CA key pair check.  The cluster
\* (with its CA key pair) and the machine are the caller's arguments.
CreateStart(m) ==
    /\ last = NoCall
    /\ pc[m] = "idle"
    /\ store[m] # Absent
    /\ \E in \in CreateInputs, machineRole \in RolesOf(store[m]) :
        LET ctxOK == in.resolvable
            kp == in.CAKeyPair
            l0 == <<Entry("NewMachineContext", 0, 0, ctxOK)>>
            l1 == Append(l0, RoleEntry(machineRole))
            l2 == Append(l1, Entry("HasCertAndKey", 0, IF HasCertAndKey(kp) THEN 1 ELSE 0, TRUE))
        IN  IF Failed(ctxOK)
            THEN /\ last' = [op |-> "Create", steps |-> l0,
                             result |-> RawError("NewMachineContext")]
                 /\ UNCHANGED <<pc, steps>>
            ELSE IF RoleUnset(machineRole)
            THEN CreateReturn(m, l1, RawError("Role"), FALSE)
            ELSE IF MissingPKI(kp)
            THEN CreateReturn(m, l2, RequeueAfterError(RequeueAfterSeconds), TRUE)
            ELSE CreateContinue(m, l2, "members")
    /\ UNCHANGED <<store, nextToken, bootstrapped, bootstrapOK, handed, created>>

\* A Create invocation, one of the MaxCalls invocations the caller makes.
CreateBegin(m) ==
    /\ calls < MaxCalls
    /\ calls' = calls + 1
    /\ CreateStart(m)

\* The role ctx.Role() returned to the running invocation of m.
MachineRole(m) == steps[m][2].text

\* ctx.GetControlPlaneMachines() and the choice between bootstrap and join.
CreateGetControlPlaneMachines(m) ==
    /\ last = NoCall
    /\ pc[m] = "members"
    /\ \E ok \in BOOLEAN :
        LET n == IF ok THEN Cardinality(GetControlPlaneMachines) ELSE 0
            log == Append(steps[m], Entry("GetControlPlaneMachines", 0, n, ok))
        IN  IF Failed(ok)
            THEN CreateReturn(m, log, WrappedError("GetControlPlaneMachines"), TRUE)
            ELSE IF IsInitialControlPlane(MachineRole(m), n)
            THEN CreateContinue(m, log, "bootstrap")
            ELSE CreateContinue(m, log, "join")
    /\ UNCHANGED <<store, calls, nextToken, bootstrapped, bootstrapOK, handed, created>>

\* govmomi.Create(ctx, ""): init the control plane by creating this machine.
CreateBootstrap(m) ==
    /\ last = NoCall
    /\ pc[m] = "bootstrap"
    /\ \E ok \in BOOLEAN :
        LET log == Append(steps[m], Entry("govmomi.Create", BootstrapCredential, 0, ok))
        IN  /\ IF Failed(ok)
               THEN CreateReturn(m, log, WrappedError("govmomi.Create"), TRUE)
               ELSE CreateReturn(m, log, Success, TRUE)
            /\ bootstrapOK' = (bootstrapOK \/ ok)
            /\ created' = IF ok THEN created \cup {m} ELSE created
    /\ bootstrapped' = bootstrapped \cup {m}
    /\ UNCHANGED <<store, calls, nextToken, handed>>

\* Join the existing cluster: kubeclient.GetControlPlaneStatus (its error is
\* dropped, its flag gates the join), then kubeclient.GetKubeClientForCluster,
\* then tokens.NewBootstrap(kubeClient, defaultTokenTTL), then
\* govmomi.Create(ctx, token).  `outcomes` is what the online-status probe can
\* answer in this state, `failing` the collaborator that fails, if any.
CreateJoin(m, outcomes) ==
    /\ last = NoCall
    /\ pc[m] = "join"
    /\ \E o \in outcomes,
          failing \in {"GetKubeClientForCluster", "NewBootstrap", "govmomi.Create", "none"} :
        LET okClient == failing # "GetKubeClientForCluster"
            okToken == failing # "NewBootstrap"
            okCreate == failing # "govmomi.Create"
            tok == NewBootstrap(nextToken)
            l0 == Append(steps[m], Entry("GetControlPlaneStatus", 0,
                                         IF o = "online" THEN 1 ELSE 0, o # "error"))
            l1 == Append(l0, Entry("GetKubeClientForCluster", 0, 0, okClient))
            l2 == Append(l1, Entry("NewBootstrap", defaultTokenTTL,
                                   IF okToken THEN tok ELSE 0, okToken))
            l3 == Append(l2, Entry("govmomi.Create", JoinCredential(tok), 0, okCreate))
        IN  IF NotOnline(o)
            THEN /\ CreateReturn(m, l0, RequeueAfterError(Minute), TRUE)
                 /\ UNCHANGED <<nextToken, handed, created>>
            ELSE IF Failed(okClient)
            THEN /\ CreateReturn(m, l1, WrappedError("GetKubeClientForCluster"), TRUE)
                 /\ UNCHANGED <<nextToken, handed, created>>
            ELSE IF Failed(okToken)
            THEN /\ CreateReturn(m, l2, WrappedError("NewBootstrap"), TRUE)
                 /\ UNCHANGED <<nextToken, handed, created>>
            ELSE /\ IF Failed(okCreate)
                    THEN CreateReturn(m, l3, WrappedError("govmomi.Create"), TRUE)
                    ELSE CreateReturn(m, l3, Success, TRUE)
                 /\ nextToken' = tok
                 /\ handed' = Append(handed, JoinCredential(tok))
                 /\ created' = IF okCreate THEN created \cup {m} ELSE created
    /\ UNCHANGED <<store, calls, bootstrapped, bootstrapOK>>

\* ------------------------------------------------- Delete, Update, Exists
\* NewMachineContext, then one backend call whose error is returned as it is,
\* then the deferred calls.  `failing` is the collaborator that fails, if any.
Delegate(m, opname, backend, success, failure) ==
    /\ last = NoCall
    /\ pc[m] = "idle"
    /\ store[m] # Absent
    /\ calls < MaxCalls
    /\ calls' = calls + 1
    /\ \E failing \in {"NewMachineContext", backend, "none"} :
        LET ctxOK == failing # "NewMachineContext"
            ok == failing # backend
            l0 == <<Entry("NewMachineContext", 0, 0, ctxOK)>>
            l1 == Append(l0, Entry(backend, 0, 0, ok))
            res == IF Failed(ok) THEN RawError(backend) ELSE Success
        IN  last' = IF Failed(ctxOK)
                    THEN [op |-> opname, steps |-> l0,
                          result |-> RawError("NewMachineContext")]
                    ELSE [op |-> opname, result |-> res,
                          steps |-> Deferred(l1, res, success, failure, TRUE)]
    /\ UNCHANGED <<store, pc, steps, nextToken, bootstrapped, bootstrapOK, handed, created>>

\* A Delete that spares the last control-plane machine: it reports success
\* without calling the backend.
DeleteSparingInitializer(m) ==
    IF IsInitialControlPlane(store[m], Cardinality(GetControlPlaneMachines))
    THEN /\ last = NoCall
         /\ pc[m] = "idle"
         /\ calls < MaxCalls
         /\ calls' = calls + 1
         /\ last' = [op |-> "Delete", result |-> Success,
                     steps |-> Deferred(<<Entry("NewMachineContext", 0, 0, TRUE)>>, Success,
                                        "DeleteSuccess", "DeleteFailure", TRUE)]
         /\ UNCHANGED <<store, pc, steps, nextToken, bootstrapped, bootstrapOK, handed, created>>
    ELSE Delegate(m, "Delete", "govmomi.Delete", "DeleteSuccess", "DeleteFailure")

Delete(m) == Delegate(m, "Delete", "govmomi.Delete", "DeleteSuccess", "DeleteFailure")

Update(m) == Delegate(m, "Update", "govmomi.Update", "UpdateSuccess", "UpdateFailure")

\* An Exists with the deferred patch and outcome event of Delete and Update.
ExistsPatching(m) ==
    Delegate(m, "Exists", "govmomi.Exists", "ExistsSuccess", "ExistsFailure")

\* govmomi.Exists(ctx): no deferred call; what it answers is returned as it is.
Exists(m) ==
    /\ last = NoCall
    /\ pc[m] = "idle"
    /\ store[m] # Absent
    /\ calls < MaxCalls
    /\ calls' = calls + 1
    /\ \E failing \in {"NewMachineContext", "govmomi.Exists", "none"}, found \in BOOLEAN :
        LET ctxOK == failing # "NewMachineContext"
            ok == failing # "govmomi.Exists"
            l0 == <<Entry("NewMachineContext", 0, 0, ctxOK)>>
            flag == found /\ ok
            l1 == Append(l0, Entry("govmomi.Exists", 0, IF flag THEN 1 ELSE 0, ok))
            res == IF Failed(ok) THEN RawError("govmomi.Exists") ELSE Success
        IN  last' = IF Failed(ctxOK)
                    THEN [op |-> "Exists", steps |-> l0,
                          result |-> Flagged(FALSE, RawError("NewMachineContext"))]
                    ELSE [op |-> "Exists", steps |-> l1, result |-> Flagged(flag, res)]
    /\ UNCHANGED <<store, pc, steps, nextToken, bootstrapped, bootstrapOK, handed, created>>

\* --------------------------------------------------------------- the caller
\* The caller takes the outcome of the invocation that has just returned.
TakeResult ==
    /\ last # NoCall
    /\ last' = NoCall
    /\ UNCHANGED <<store, pc, steps, calls, nextToken, bootstrapped, bootstrapOK, handed, created>>

\* ----------------------------------------------------------- specification
\* A step of the caller, of the record store or of the worker of a machine.
Next ==
    \/ TakeResult
    \/ \E m \in Machines :
        \/ Register(m)
        \/ Unregister(m)
        \/ CreateBegin(m)
        \/ CreateGetControlPlaneMachines(m)
        \/ CreateBootstrap(m)
        \/ CreateJoin(m, ProbeOutcomes)
        \/ Delete(m)
        \/ Update(m)
        \/ Exists(m)

Spec == Init /\ [][Next]_vars

\* The control plane answers online only once a bootstrap-mode backend create
\* has succeeded.
GatedOutcomes == IF bootstrapOK THEN ProbeOutcomes ELSE ProbeOutcomes \ {"online"}

NextGated ==
    \/ TakeResult
    \/ \E m \in Machines :
        \/ Register(m)
        \/ Unregister(m)
        \/ CreateBegin(m)
        \/ CreateGetControlPlaneMachines(m)
        \/ CreateBootstrap(m)
        \/ CreateJoin(m, GatedOutcomes)
        \/ Delete(m)
        \/ Update(m)
        \/ Exists(m)

SpecGated == Init /\ [][NextGated]_vars

\* ------------------------------------------------- the caller that retries
\* The caller re-invokes Create for every registered machine that is not yet
\* created, as often as it takes.  The cluster is healthy: every machine has a
\* valid role, the CA key pair is complete, every collaborator call succeeds,
\* and the control plane answers online exactly from the moment a
\* bootstrap-mode backend create has succeeded.  Machines are registered in
\* any order relative to the Create invocations and are not removed.
Healthy(log) ==
    \A i \in 1..Len(log) :
        /\ log[i].ok
        /\ log[i].call = "Role" => log[i].text # ""
        /\ log[i].call = "HasCertAndKey" => log[i].out = 1

RetryOutcomes == IF bootstrapOK THEN {"online"} ELSE {"offline"}

RetryCreateBegin(m) ==
    /\ m \notin created
    /\ CreateStart(m)
    /\ pc'[m] = "members"
    /\ Healthy(steps'[m])
    /\ UNCHANGED calls

RetryGetControlPlaneMachines(m) ==
    /\ CreateGetControlPlaneMachines(m)
    /\ Healthy(steps'[m])
    /\ last' = NoCall

RetryBootstrap(m) ==
    /\ CreateBootstrap(m)
    /\ Healthy(last'.steps)

RetryJoin(m) ==
    /\ CreateJoin(m, RetryOutcomes)
    /\ Healthy(last'.steps)

NextRetry ==
    \/ TakeResult
    \/ \E m \in Machines :
        \/ Register(m)
        \/ RetryCreateBegin(m)
        \/ RetryGetControlPlaneMachines(m)
        \/ RetryBootstrap(m)
        \/ RetryJoin(m)

\* The caller takes every outcome, and no invocation it can start or continue
\* again and again is left waiting forever.
SpecRetry ==
    /\ Init
    /\ [][NextRetry]_vars
    /\ WF_vars(TakeResult)
    /\ \A m \in Machines :
        /\ SF_vars(RetryCreateBegin(m))
        /\ SF_vars(RetryGetControlPlaneMachines(m))
        /\ SF_vars(RetryBootstrap(m))
        /\ SF_vars(RetryJoin(m))

\* ------------------------------------------------------- reading the logs
\* The positions of the calls to c in a log.
CallsTo(log, c) == {i \in 1..Len(log) : log[i].call = c}

NoCallTo(log, c) == CallsTo(log, c) = {}

\* The deferred calls of a log, and the calls made before them.
IsDeferred(e) == e.call \in {"Patch", "Eventf", "Warnf"}

Body(log) == SelectSeq(log, LAMBDA e : ~IsDeferred(e))

\* A Create, Delete or Update invocation has just returned.
Returned(ops) == last.op \in ops

\* NewMachineContext built the operation context of the returned invocation.
ContextBuilt == Len(last.steps) >= 1 /\ last.steps[1].ok

\* What the returned Create invocation read, when it got that far.
ReadRole(r) == Len(last.steps) >= 2 /\ last.steps[2].call = "Role" /\ last.steps[2].text = r

ReadValidRole == ReadRole(ControlPlaneRole) \/ ReadRole(NodeRole)

ReadKeyPair(complete) ==
    /\ Len(last.steps) >= 3
    /\ last.steps[3].call = "HasCertAndKey"
    /\ last.steps[3].out = (IF complete THEN 1 ELSE 0)

\* The membership query answered, with n control-plane machines.
ReadMembers(n) ==
    /\ Len(last.steps) >= 4
    /\ last.steps[4].call = "GetControlPlaneMachines"
    /\ last.steps[4].ok
    /\ last.steps[4].out = n

\* The online-status probe was called and reported online (1) or not (0).
Probed(flag) ==
    \E i \in CallsTo(last.steps, "GetControlPlaneStatus") : last.steps[i].out = flag

\* The backend creates of the returned invocation in bootstrap and in join mode.
BootstrapCreates == {i \in CallsTo(last.steps, "govmomi.Create") : last.steps[i].arg = 0}

JoinCreates == {i \in CallsTo(last.steps, "govmomi.Create") : last.steps[i].arg # 0}

\* ------------------------------------------------------------------ claims
\* C1: at most one machine of the cluster ever has the provisioning backend
\* invoked for it in bootstrap mode, whatever the interleaving of the Create
\* invocations and of the changes of the record store.
C1_AtMostOneBootstrap == Cardinality(bootstrapped) <= 1

\* C2: when the control plane can answer online only after a bootstrap-mode
\* backend create has succeeded, a join-mode backend create is made only after
\* a bootstrap-mode backend create has succeeded.
C2_JoinAfterBootstrap ==
    (Returned({"Create"}) /\ JoinCreates # {}) => bootstrapOK

C2_Witness ==
    /\ Returned({"Create"})
    /\ JoinCreates # {}
    /\ bootstrapOK
    /\ last.result = Success

\* C3: a Create on a control-plane machine with a complete CA key pair whose
\* membership query reports exactly one control-plane machine calls the backend
\* exactly once, with the empty credential, makes no online-status probe, no
\* client acquisition and no credential issuance, and returns success when the
\* backend succeeds and a wrapped fatal error when it fails.
C3_SoleInitializer ==
    (/\ Returned({"Create"})
     /\ ContextBuilt
     /\ ReadRole(ControlPlaneRole)
     /\ ReadKeyPair(TRUE)
     /\ ReadMembers(1))
    => /\ Cardinality(CallsTo(last.steps, "govmomi.Create")) = 1
       /\ JoinCreates = {}
       /\ NoCallTo(last.steps, "GetControlPlaneStatus")
       /\ NoCallTo(last.steps, "GetKubeClientForCluster")
       /\ NoCallTo(last.steps, "NewBootstrap")
       /\ \A i \in BootstrapCreates :
            IF last.steps[i].ok
            THEN last.result.kind = "ok"
            ELSE last.result.kind = "fatal" /\ last.result.wrapped
                 /\ last.result.err = "govmomi.Create"

C3_Witness ==
    /\ Returned({"Create"})
    /\ ReadRole(ControlPlaneRole)
    /\ ReadKeyPair(TRUE)
    /\ ReadMembers(1)
    /\ \E i \in BootstrapCreates : ~last.steps[i].ok
    /\ last.result.kind = "fatal"

\* C4: a Create on a machine whose role is unset returns a fatal error, the
\* configuration error of the role check when the operation context was built,
\* never a retry-after outcome, and never calls the provisioning backend.  A
\* Create whose context cannot be built reads no role; it too ends in a fatal
\* error without a backend call.
C4_UnsetRoleIsFatal ==
    (Returned({"Create"}) /\ (~ContextBuilt \/ ReadRole("")))
    => /\ last.result.kind = "fatal"
       /\ ReadRole("") => last.result = RawError("Role")
       /\ NoCallTo(last.steps, "govmomi.Create")

C4_Witness ==
    /\ Returned({"Create"})
    /\ ContextBuilt
    /\ ReadRole("")
    /\ last.result = RawError("Role")

\* C5: a Create on a machine with a valid role, for a cluster whose CA key pair
\* lacks its certificate or its private key, returns the retry-after outcome
\* with constants.RequeueAfterSeconds and never calls the provisioning backend.
C5_MissingKeyPairRequeues ==
    (Returned({"Create"}) /\ ContextBuilt /\ ReadValidRole /\ ReadKeyPair(FALSE))
    => /\ last.result.kind = "requeue"
       /\ last.result.after = RequeueAfterSeconds
       /\ NoCallTo(last.steps, "govmomi.Create")

C5_Witness ==
    /\ Returned({"Create"})
    /\ ReadRole(NodeRole)
    /\ ReadKeyPair(FALSE)
    /\ last.result.kind = "requeue"

\* The returned Create had to join: its CA key pair was complete, its
\* membership query answered, and its role was not control-plane or the
\* control-plane count was greater than one.
MustJoin ==
    /\ Returned({"Create"})
    /\ ContextBuilt
    /\ ReadValidRole
    /\ ReadKeyPair(TRUE)
    /\ \E n \in 0..MaxMachines : ReadMembers(n) /\ (~ReadRole(ControlPlaneRole) \/ n > 1)

\* C6: a Create that must join probes the online status once; when the probe
\* reports the control plane offline, it returns the retry-after outcome with a
\* backoff of one minute and makes no client acquisition, no credential
\* issuance and no backend call.
C6_OfflineRequeues ==
    /\ MustJoin => Cardinality(CallsTo(last.steps, "GetControlPlaneStatus")) = 1
    /\ (MustJoin /\ Probed(0))
       => /\ last.result.kind = "requeue"
          /\ last.result.after = 60
          /\ NoCallTo(last.steps, "GetKubeClientForCluster")
          /\ NoCallTo(last.steps, "NewBootstrap")
          /\ NoCallTo(last.steps, "govmomi.Create")

C6_Witness ==
    /\ MustJoin
    /\ ReadRole(ControlPlaneRole)
    /\ Probed(0)
    /\ last.result.kind = "requeue"

\* The calls a returned Create that found the control plane online made after
\* the probe, the deferred calls left out.
AfterProbe ==
    LET body == Body(last.steps)
        i == CHOOSE k \in 1..Len(body) : body[k].call = "GetControlPlaneStatus"
    IN  SubSeq(body, i + 1, Len(body))

\* C7: a join attempt that finds the control plane online acquires a cluster
\* client, then issues a credential with a TTL of 10 minutes, then calls the
\* backend with exactly the credential issued; the first of the three to fail
\* ends the attempt with a wrapped fatal error, and none fails only when the
\* attempt returns success.
C7_JoinSequence ==
    (Returned({"Create"}) /\ Probed(1))
    => LET t == AfterProbe
       IN  /\ Len(t) >= 1
           /\ t[1].call = "GetKubeClientForCluster"
           /\ IF ~t[1].ok
              THEN Len(t) = 1 /\ last.result = WrappedError("GetKubeClientForCluster")
              ELSE /\ Len(t) >= 2
                   /\ t[2].call = "NewBootstrap"
                   /\ t[2].arg = 600
                   /\ IF ~t[2].ok
                      THEN Len(t) = 2 /\ last.result = WrappedError("NewBootstrap")
                      ELSE /\ Len(t) = 3
                           /\ t[3].call = "govmomi.Create"
                           /\ t[3].arg = t[2].out
                           /\ t[3].arg # 0
                           /\ IF ~t[3].ok
                              THEN last.result = WrappedError("govmomi.Create")
                              ELSE last.result = Success

C7_Witness ==
    /\ Returned({"Create"})
    /\ Probed(1)
    /\ JoinCreates # {}
    /\ last.result = Success

\* The order of the calls of Create on its two paths.
BootstrapPath ==
    <<"NewMachineContext", "Role", "HasCertAndKey", "GetControlPlaneMachines",
      "govmomi.Create">>

JoinPath ==
    <<"NewMachineContext", "Role", "HasCertAndKey", "GetControlPlaneMachines",
      "GetControlPlaneStatus", "GetKubeClientForCluster", "NewBootstrap", "govmomi.Create">>

\* The step neither failed nor signalled retry-after.
Passed(e) ==
    /\ e.ok
    /\ e.call = "Role" => e.text # ""
    /\ e.call = "HasCertAndKey" => e.out = 1
    /\ e.call = "GetControlPlaneStatus" => e.out = 1

\* The calls of `body` are the first calls of `path`, in its order.
Follows(body, path) ==
    /\ Len(body) <= Len(path)
    /\ \A i \in 1..Len(body) : body[i].call = path[i]

InOrder(body) ==
    /\ Follows(body, BootstrapPath) \/ Follows(body, JoinPath)
    /\ \A i \in 1..(Len(body) - 1) : Passed(body[i])

\* C8: the calls of a Create invocation, running or returned, are made in the
\* order role check, CA key pair check, membership query, then either the
\* bootstrap backend call or the online-status probe, client acquisition,
\* credential issuance and join backend call; a call is made only when every
\* call before it neither failed nor signalled retry-after.
C8_StepsInOrder ==
    /\ \A m \in Machines : InOrder(steps[m])
    /\ Returned({"Create"}) => InOrder(Body(last.steps))

C8_Witness ==
    /\ Returned({"Create"})
    /\ Len(Body(last.steps)) = Len(JoinPath)
    /\ Follows(Body(last.steps), JoinPath)
    /\ ~last.steps[Len(JoinPath)].ok

\* C9: every Create, Delete and Update invocation whose operation context was
\* built flushes the status patch exactly once, after its other calls and
\* before it returns, whatever its outcome, the configuration error of an
\* unset role included.
C9_PatchOnEveryExit ==
    (Returned({"Create", "Delete", "Update"}) /\ ContextBuilt)
    => /\ Cardinality(CallsTo(last.steps, "Patch")) = 1
       /\ \A i \in CallsTo(last.steps, "Patch") : i > Len(Body(last.steps))

\* The outcome events of the returned invocation.
Events == CallsTo(last.steps, "Eventf") \cup CallsTo(last.steps, "Warnf")

SuccessReason ==
    CASE last.op = "Create" -> "CreateSuccess"
      [] last.op = "Delete" -> "DeleteSuccess"
      [] last.op = "Update" -> "UpdateSuccess"

FailureReason ==
    CASE last.op = "Create" -> "CreateFailure"
      [] last.op = "Delete" -> "DeleteFailure"
      [] last.op = "Update" -> "UpdateFailure"

\* C10: every Create, Delete or Update invocation that returns success or a
\* fatal error, the error of a context that cannot be built included, records
\* exactly one event: the success event on success, the failure event on a
\* fatal error.
C10_OneEventPerTerminalOutcome ==
    (Returned({"Create", "Delete", "Update"}) /\ last.result.kind \in {"ok", "fatal"})
    => /\ Cardinality(Events) = 1
       /\ \A i \in Events :
            IF last.result.kind = "ok"
            THEN last.steps[i].call = "Eventf" /\ last.steps[i].text = SuccessReason
            ELSE last.steps[i].call = "Warnf" /\ last.steps[i].text = FailureReason

\* C11: a Create invocation that returns a retry-after outcome, for an
\* incomplete CA key pair or for a control plane that is not online, records
\* no failure event.
C11_RequeueRecordsNoFailure ==
    (Returned({"Create"}) /\ last.result.kind = "requeue")
    => /\ NoCallTo(last.steps, "Warnf")
       /\ \A i \in Events : last.steps[i].text # "CreateFailure"

\* C12: an Exists invocation, whether it returns a flag or an error, flushes
\* no status patch and records no event; the calls it makes are the context
\* builder and, once the context is built, the backend's query.
C12_ExistsIsReadOnly ==
    Returned({"Exists"})
    => /\ NoCallTo(last.steps, "Patch")
       /\ Events = {}
       /\ \A i \in 1..Len(last.steps) :
            last.steps[i].call \in {"NewMachineContext", "govmomi.Exists"}

C12_Witness ==
    /\ Returned({"Exists"})
    /\ ContextBuilt
    /\ ~NoCallTo(last.steps, "govmomi.Exists")
    /\ last.result = RawError("govmomi.Exists")

\* C13 as stated: every Delete invocation calls the backend's destroy
\* operation exactly once.
C13_EveryDeleteDestroysOnce ==
    Returned({"Delete"}) => Cardinality(CallsTo(last.steps, "govmomi.Delete")) = 1

\* C13, amended: every Delete invocation whose operation context was built
\* calls the backend's destroy operation exactly once, whatever the machine's
\* role and the control-plane membership count, and reads neither the CA key
\* pair nor the online status; a Delete whose context cannot be built does not
\* call it.
C13_DeleteDestroysOnceContextBuilt ==
    Returned({"Delete"})
    => /\ Cardinality(CallsTo(last.steps, "govmomi.Delete")) = (IF ContextBuilt THEN 1 ELSE 0)
       /\ NoCallTo(last.steps, "HasCertAndKey")
       /\ NoCallTo(last.steps, "GetControlPlaneMachines")
       /\ NoCallTo(last.steps, "GetControlPlaneStatus")

C13_Witness ==
    /\ Returned({"Delete"})
    /\ ContextBuilt
    /\ Cardinality(GetControlPlaneMachines) = 1
    /\ Cardinality(CallsTo(last.steps, "govmomi.Delete")) = 1
    /\ last.result = Success

\* The collaborators of Create whose errors the invocation has to surface.
Collaborators ==
    {"GetControlPlaneMachines", "GetControlPlaneStatus", "GetKubeClientForCluster",
     "NewBootstrap", "govmomi.Create"}

\* C14: whenever a collaborator call made during Create (membership query,
\* online-status probe, client acquisition, credential issuance, backend call)
\* reports an error, the invocation returns that error to its caller.
C14_NoErrorSwallowed ==
    Returned({"Create"})
    => \A i \in 1..Len(last.steps) :
         (last.steps[i].call \in Collaborators /\ ~last.steps[i].ok)
         => last.result.kind = "fatal" /\ last.result.err = last.steps[i].call

\* C15: every fatal error returned by a Create, Delete or Update invocation
\* whose operation context was built is the orchestrator's own configuration
\* error or a collaborator's error wrapped by the orchestrator; the errors of
\* the backend's destroy and update operations are returned wrapped.
C15_ErrorsAreWrapped ==
    (/\ Returned({"Create", "Delete", "Update"})
     /\ ContextBuilt
     /\ last.result.kind = "fatal")
    => last.result.wrapped \/ last.result.err = "Role"

\* C16: every join-mode backend create receives a credential issued earlier
\* in the same invocation, and across all Create invocations no credential is
\* handed to more than one backend create.
C16_CredentialsAreFresh ==
    /\ \A i, j \in 1..Len(handed) : i # j => handed[i] # handed[j]
    /\ Returned({"Create"})
       => \A i \in JoinCreates :
            \E j \in CallsTo(last.steps, "NewBootstrap") :
              /\ j < i
              /\ last.steps[j].ok
              /\ last.steps[j].out = last.steps[i].arg

C16_Witness ==
    /\ Len(handed) = 2
    /\ Returned({"Create"})
    /\ JoinCreates # {}
    /\ last.result = Success

\* C17: in every Create, Delete and Update invocation that both flushes a
\* status patch and records an outcome event, the patch is flushed before the
\* event is recorded.
C17_PatchBeforeEvent ==
    Returned({"Create", "Delete", "Update"})
    => \A p \in CallsTo(last.steps, "Patch"), e \in Events : p < e

C17_Witness ==
    /\ Returned({"Update"})
    /\ ~NoCallTo(last.steps, "Patch")
    /\ ~NoCallTo(last.steps, "Warnf")
    /\ last.result = RawError("govmomi.Update")

\* C18: a Create, Delete, Update or Exists invocation whose operation context
\* cannot be built returns the context builder's error (Exists with the flag
\* false) and makes no other call: no backend call, no membership query, no
\* online-status probe, no credential issuance, no status patch.
C18_FailFastOnContext ==
    (Returned({"Create", "Delete", "Update", "Exists"}) /\ ~ContextBuilt)
    => /\ last.result = RawError("NewMachineContext")
       /\ ~last.result.flag
       /\ Len(last.steps) = 1
       /\ last.steps[1].call = "NewMachineContext"

C18_Witness ==
    /\ Returned({"Exists"})
    /\ ~ContextBuilt
    /\ last.result.kind = "fatal"
    /\ ~last.result.flag

\* The backend operation the returned invocation delegates to.
BackendCall ==
    CASE last.op = "Create" -> "govmomi.Create"
      [] last.op = "Delete" -> "govmomi.Delete"
      [] last.op = "Update" -> "govmomi.Update"

\* C20: whenever a Create, Delete or Update invocation records its success
\* event, the backend's create, destroy or update was called exactly once in
\* that invocation and returned no error, and the invocation returned success.
C20_SuccessEventMeansBackendSucceeded ==
    (Returned({"Create", "Delete", "Update"}) /\ ~NoCallTo(last.steps, "Eventf"))
    => /\ \A e \in CallsTo(last.steps, "Eventf") : last.steps[e].text = SuccessReason
       /\ Cardinality(CallsTo(last.steps, BackendCall)) = 1
       /\ \A i \in CallsTo(last.steps, BackendCall) : last.steps[i].ok
       /\ last.result = Success

C20_Witness ==
    /\ Returned({"Create"})
    /\ \E e \in CallsTo(last.steps, "Eventf") : last.steps[e].text = "CreateSuccess"
    /\ BootstrapCreates # {}
    /\ last.result = Success

\* C19: in a healthy cluster whose caller retries fairly, once a machine is
\* registered and the record store lists at least one control-plane machine,
\* the Create of that machine eventually returns success.
C19_EveryCreateEventuallySucceeds ==
    \A m \in Machines :
        (store[m] # Absent /\ GetControlPlaneMachines # {}) ~> (m \in created)

====
